---- MODULE Spec2Model ----
(***************************************************************************)
(* A model of fileio/file_client.py: the FileClient resolver (its class-   *)
(* level tables _backends, _prefix_to_backends and _instances), backend    *)
(* registration, URI prefix parsing and HTTPBackend.get_local_path.        *)
(***************************************************************************)
EXTENDS Integers, Sequences, FiniteSets, TLC

(***************************************************************************)
(* Bounds of the model.                                                    *)
(***************************************************************************)
\* calls made in one run of the sequential resolver
MaxCalls == 3

(***************************************************************************)
(* Python values that reach the resolver as arguments.  t is the Python    *)
(* type; s carries the text of a str or int, b the value of a bool.        *)
(***************************************************************************)
PyNone == [t |-> "none", s |-> "", b |-> FALSE]

PyStr(x) == [t |-> "str", s |-> x, b |-> FALSE]

PyBool(x) == [t |-> "bool", s |-> "", b |-> x]

PyInt(x) == [t |-> "int", s |-> x, b |-> FALSE]

\* str(v), as an f-string renders a value
Format(v) ==
    CASE v.t = "none" -> "None"
      [] v.t = "str"  -> v.s
      [] v.t = "int"  -> v.s
      [] v.t = "bool" -> IF v.b THEN "True" ELSE "False"

(***************************************************************************)
(* Exceptions: the class raised and its message.  Ok stands for a call     *)
(* that returns.                                                           *)
(***************************************************************************)
Ok == [type |-> "", msg |-> ""]

Raise(type, msg) == [type |-> type, msg |-> msg]

\* line 336, the spec's UnsupportedBackend
UnsupportedBackend(backend) ==
    Raise("ValueError", "Backned " \o Format(backend) \o " is not supported.")

\* line 340, the spec's UnsupportedPrefix
UnsupportedPrefix(prefix) ==
    Raise("ValueError", "prefix " \o Format(prefix) \o " is not supported.")

\* lines 417 and 443, the spec's AlreadyRegistered
AlreadyRegistered(key) ==
    Raise("KeyError",
          key \o " is already registered, set force=True to override it.")

\* lines 411, 413 and 415, the spec's TypeMismatch
NameNotStr == Raise("TypeError", "name should be a string.")

NotAClass == Raise("TypeError", "backend should be a class.")

NotABackend ==
    Raise("TypeError", "backend should be a subclass of BaseStorageBackend.")

\* line 430
BadPrefixesError == Raise("AssertionError", "")

\* a constructor called with keywords its signature does not bind
BadSignature(c) == Raise("TypeError", c \o ".__init__() arguments")

\* lines 53 and 101, the spec's DependencyMissing
DependencyMissing(lib, c) ==
    Raise("ImportError", "Please install " \o lib \o " to enable " \o c \o ".")

\* line 389: the unpacking of a split that has more than two parts
TooManyValues == Raise("ValueError", "too many values to unpack (expected 2)")

(***************************************************************************)
(* Classes.  The four backends of the module, one backend class a caller   *)
(* defines (a concrete subclass of BaseStorgeBackend whose constructor     *)
(* takes any keywords), a class that is no backend, and a value that is    *)
(* no class.                                                               *)
(***************************************************************************)
BackendClasses ==
    {"HardDiskBackend", "MemcachedBackend", "LmdbBackend", "HTTPBackend",
     "UserBackend"}

\* inspect.isclass(backend)
IsClass(c) == c \in BackendClasses \cup {"PlainClass"}

\* issubclass(c, d) for d a backend class: every backend derives directly
\* from BaseStorgeBackend, so c is a subclass of d only when it is d
IsSubclass(c, d) == c \in BackendClasses /\ c = d

\* issubclass(backend, BaseStorgeBackend)
IsBackendClass(c) == c \in BackendClasses

\* isinstance(instance.client, cls)
IsInstance(client, c) == IsSubclass(client.type, c)

\* the keyword names of a call
KwKeys(kwargs) == {kwargs[i][1] : i \in 1..Len(kwargs)}

(***************************************************************************)
(* Calling a class with the keywords of the call: the outcome of binding   *)
(* them to the constructor and running it.  HardDiskBackend and            *)
(* HTTPBackend define no __init__ and so accept no argument;               *)
(* MemcachedBackend and LmdbBackend import their library first thing in    *)
(* the body.                                                               *)
(***************************************************************************)
\* the constructors with the imports of lines 50-55 and 98-101 left to
\* the first get
ConstructNoImport(c, kwargs, libs) ==
    CASE c \in {"HardDiskBackend", "HTTPBackend"} ->
            IF kwargs = <<>> THEN Ok ELSE BadSignature(c)
      [] c = "MemcachedBackend" ->
            IF ~({"server_list_cfg", "client_cfg"} \subseteq KwKeys(kwargs))
               \/ ~(KwKeys(kwargs) \subseteq
                        {"server_list_cfg", "client_cfg", "sys_path"})
            THEN BadSignature(c)
            ELSE Ok
      [] c = "LmdbBackend" ->
            IF "db_path" \notin KwKeys(kwargs) THEN BadSignature(c) ELSE Ok
      [] c = "UserBackend" -> Ok

Construct(c, kwargs, libs) ==
    CASE c \in {"HardDiskBackend", "HTTPBackend"} ->
            IF kwargs = <<>> THEN Ok ELSE BadSignature(c)
      [] c = "MemcachedBackend" ->
            IF ~({"server_list_cfg", "client_cfg"} \subseteq KwKeys(kwargs))
               \/ ~(KwKeys(kwargs) \subseteq
                        {"server_list_cfg", "client_cfg", "sys_path"})
            THEN BadSignature(c)
            ELSE IF "mc" \in libs THEN Ok
            ELSE DependencyMissing("memcached", c)
      [] c = "LmdbBackend" ->
            IF "db_path" \notin KwKeys(kwargs) THEN BadSignature(c)
            ELSE IF "lmdb" \in libs THEN Ok
            ELSE DependencyMissing("lmdb", c)
      [] c = "UserBackend" -> Ok

(***************************************************************************)
(* State of the resolver.                                                  *)
(***************************************************************************)
VARIABLES
    backends,            \* FileClient._backends: name -> class
    prefix_to_backends,  \* FileClient._prefix_to_backends: prefix -> class
    instances,           \* FileClient._instances: arg_key -> FileClient object
    nextId,              \* number of backend objects constructed so far
    installed,           \* the optional libraries the interpreter can import
    calls,               \* number of calls made so far
    last,                \* the outcome of the last call
    returned             \* per configuration, the object its last resolve
                         \* returned since the last override

\* threads inside FileClient.__new__ (SpecThreads)
VARIABLES
    pc,                  \* per thread, the line of __new__ it is at
    targs,               \* per thread, the arguments of its call
    tinst,               \* per thread, its local _instance (id 0: unbound)
    tret                 \* per thread, the object its call returned (0: none)

\* with-blocks over get_local_path (SpecLocalPath)
VARIABLES
    files,               \* the temporary files that exist on disk
    handles,             \* the temporary files that are open
    platform,            \* os.name of the interpreter
    lp                   \* per with-block: where it is, its local f, the
                         \* exception in flight

\* HardDiskBackend over a file system (SpecDisk)
VARIABLES
    dirs,                \* the directories that exist (the root always does)
    fdata,               \* the regular files that exist, with their content
    gen,                 \* the generator list_dir_or_file returned last
    dout,                \* the outcome of the last disk call
    dops                 \* number of disk calls made so far

\* backend objects from construction to teardown (SpecBackends)
VARIABLES
    objs,                \* the backend objects constructed, by identity
    conns,               \* the connections opened, with whether each is open
    bout,                \* the outcome of the last call on a backend
    bops                 \* number of such calls made so far

\* io.dump (SpecIo)
VARIABLES
    io,                  \* the outcome of the last call of dump
    iops                 \* number of such calls made so far

\* the class attributes as the module defines them
InitBackends ==
    ("disk" :> "HardDiskBackend") @@ ("memcached" :> "MemcachedBackend")
    @@ ("lmdb" :> "LmdbBackend") @@ ("http" :> "HTTPBackend")

InitPrefixes == ("http" :> "HTTPBackend") @@ ("https" :> "HTTPBackend")

Empty == [k \in {} |-> 0]

\* f with key k bound to v (dict item assignment)
Put(f, k, v) == [x \in (DOMAIN f) \cup {k} |-> IF x = k THEN v ELSE f[x]]

\* f without the keys in ks (dict.pop of each)
Drop(f, ks) == [x \in (DOMAIN f) \ ks |-> f[x]]

(***************************************************************************)
(* FileClient.__new__                                                      *)
(***************************************************************************)
\* arg_key += f':{key}:{value}' for each keyword, in the order of the call
RECURSIVE KwSuffix(_)
KwSuffix(kwargs) ==
    IF kwargs = <<>> THEN ""
    ELSE ":" \o kwargs[1][1] \o ":" \o Format(kwargs[1][2])
             \o KwSuffix(Tail(kwargs))

\* the backend argument after the default of line 334
EffBackend(backend, prefix) ==
    IF backend.t = "none" /\ prefix.t = "none" THEN PyStr("disk") ELSE backend

\* arg_key
ArgKey(backend, prefix, kwargs) ==
    Format(EffBackend(backend, prefix)) \o ":" \o Format(prefix)
        \o KwSuffix(kwargs)

\* the class __new__ instantiates on a cache miss (lines 355-358)
ChosenClass(backend, prefix, B, P) ==
    IF EffBackend(backend, prefix).t # "none"
    THEN B[EffBackend(backend, prefix).s]
    ELSE P[prefix.s]

\* the checks of lines 335-342 with the prefix looked at first
ValidatePrefixFirst(backend, prefix, B, P) ==
    IF prefix.t # "none" /\ ~(prefix.t = "str" /\ prefix.s \in DOMAIN P)
    THEN UnsupportedPrefix(prefix)
    ELSE IF EffBackend(backend, prefix).t # "none"
            /\ ~(EffBackend(backend, prefix).t = "str"
                 /\ EffBackend(backend, prefix).s \in DOMAIN B)
    THEN UnsupportedBackend(EffBackend(backend, prefix))
    ELSE Ok

\* the checks of lines 335-342
Validate(backend, prefix, B, P) ==
    IF EffBackend(backend, prefix).t # "none"
       /\ ~(EffBackend(backend, prefix).t = "str"
            /\ EffBackend(backend, prefix).s \in DOMAIN B)
    THEN UnsupportedBackend(EffBackend(backend, prefix))
    ELSE IF prefix.t # "none" /\ ~(prefix.t = "str" /\ prefix.s \in DOMAIN P)
    THEN UnsupportedPrefix(prefix)
    ELSE Ok

\* __new__ without line 360: the object constructed is not cached
NewClientNoStore(backend, prefix, kwargs, B, P, I, n, libs) ==
    LET err == Validate(backend, prefix, B, P)
        key == ArgKey(backend, prefix, kwargs)
    IN  IF err # Ok
        THEN [err |-> err, id |-> 0, I |-> I, n |-> n]
        ELSE IF key \in DOMAIN I
        THEN [err |-> Ok, id |-> I[key].id, I |-> I, n |-> n]
        ELSE LET c == ChosenClass(backend, prefix, B, P)
                 out == Construct(c, kwargs, libs)
             IN  IF out # Ok
                 THEN [err |-> out, id |-> 0, I |-> I, n |-> n]
                 ELSE [err |-> Ok, id |-> n + 1, I |-> I, n |-> n + 1]

\* The whole of __new__ on tables B, P, cache I and construction count n:
\* the exception raised (Ok when it returns), the object returned, and the
\* cache and construction count it leaves.
NewClient(backend, prefix, kwargs, B, P, I, n, libs) ==
    LET err == Validate(backend, prefix, B, P)
        key == ArgKey(backend, prefix, kwargs)
    IN  IF err # Ok
        THEN [err |-> err, id |-> 0, I |-> I, n |-> n]
        ELSE IF key \in DOMAIN I
        THEN [err |-> Ok, id |-> I[key].id, I |-> I, n |-> n]
        ELSE LET c == ChosenClass(backend, prefix, B, P)
                 out == Construct(c, kwargs, libs)
             IN  IF out # Ok
                 THEN [err |-> out, id |-> 0, I |-> I, n |-> n]
                 ELSE [err |-> Ok, id |-> n + 1,
                       I |-> Put(I, key, [id |-> n + 1, type |-> c]),
                       n |-> n + 1]

(***************************************************************************)
(* FileClient.parse_uri_prefix and FileClient.infer_client.  A URI is the  *)
(* sequence of its pieces, the separator "://" being a piece of its own.   *)
(***************************************************************************)
Sep == "://"

\* str(uri)
RECURSIVE Join(_)
Join(pieces) == IF pieces = <<>> THEN "" ELSE pieces[1] \o Join(Tail(pieces))

\* uri.split('://'): the parts between the separators
RECURSIVE Split(_)
Split(uri) ==
    IF \A i \in 1..Len(uri) : uri[i] # Sep
    THEN <<Join(uri)>>
    ELSE LET i == CHOOSE j \in 1..Len(uri) :
                      uri[j] = Sep /\ \A k \in 1..(j - 1) : uri[k] # Sep
         IN  <<Join(SubSeq(uri, 1, i - 1))>>
                 \o Split(SubSeq(uri, i + 1, Len(uri)))

\* parse_uri_prefix: the exception raised and the prefix returned
ParseUriPrefix(uri) ==
    IF \A i \in 1..Len(uri) : uri[i] # Sep
    THEN [err |-> Ok, prefix |-> PyNone]
    ELSE IF Len(Split(uri)) # 2
    THEN [err |-> TooManyValues, prefix |-> PyNone]
    ELSE [err |-> Ok, prefix |-> PyStr(Split(uri)[1])]

\* file_client_args of infer_client: None, or the keywords for the class
NoArgs == [given |-> FALSE, backend |-> PyNone, prefix |-> PyNone,
           kwargs |-> <<>>]

Args(backend, prefix, kwargs) ==
    [given |-> TRUE, backend |-> backend, prefix |-> prefix,
     kwargs |-> kwargs]

\* infer_client: the call of the class it ends in, or the exception of the
\* parse
InferCall(args, uri) ==
    IF ~args.given
    THEN [err |-> ParseUriPrefix(uri).err, backend |-> PyNone,
          prefix |-> ParseUriPrefix(uri).prefix, kwargs |-> <<>>]
    ELSE [err |-> Ok, backend |-> args.backend, prefix |-> args.prefix,
          kwargs |-> args.kwargs]

(***************************************************************************)
(* FileClient._register_backend                                            *)
(***************************************************************************)
\* the prefixes argument: None, one str, a list of str, or anything else
NoPrefixes == [kind |-> "none", items |-> <<>>]

OnePrefix(p) == [kind |-> "str", items |-> <<p>>]

PrefixList(ps) == [kind |-> "list", items |-> ps]

BadPrefixes == [kind |-> "other", items |-> <<>>]

\* the keys of the cache whose object holds an instance of class c
KeysOf(I, c) == {k \in DOMAIN I : IsInstance(I[k], c)}

\* the loops of lines 421-423 and 438-440 popping nothing
EvictNothing(I, c) == I

\* the loops of lines 421-423 and 438-440: pop every instance of class c
Evict(I, c) == Drop(I, KeysOf(I, c))

\* The loop over prefixes (lines 431-444) from table P and cache I: the
\* table and cache it leaves and the exception that ended it.
RECURSIVE PrefixLoop(_, _, _, _, _)
PrefixLoop(ps, backend, force, P, I) ==
    IF ps = <<>> THEN [err |-> Ok, P |-> P, I |-> I]
    ELSE IF ps[1] \notin DOMAIN P
    THEN PrefixLoop(Tail(ps), backend, force, Put(P, ps[1], backend), I)
    ELSE IF force
    THEN PrefixLoop(Tail(ps), backend, force, Put(P, ps[1], backend),
                    Evict(I, P[ps[1]]))
    ELSE [err |-> AlreadyRegistered(ps[1]), P |-> P, I |-> I]

\* the checks of lines 410-418 without the one of lines 416-418
RegisterChecksNoKeyError(name, backend, force, B) ==
    IF name.t # "str" THEN NameNotStr
    ELSE IF ~IsClass(backend) THEN NotAClass
    ELSE IF ~IsBackendClass(backend) THEN NotABackend
    ELSE Ok

\* the checks of lines 410-418
RegisterChecks(name, backend, force, B) ==
    IF name.t # "str" THEN NameNotStr
    ELSE IF ~IsClass(backend) THEN NotAClass
    ELSE IF ~IsBackendClass(backend) THEN NotABackend
    ELSE IF ~force /\ name.s \in DOMAIN B THEN AlreadyRegistered(name.s)
    ELSE Ok

\* The whole of _register_backend on tables B, P and cache I: the
\* exception raised and the tables and cache it leaves.
RegisterBackend(name, backend, force, prefixes, B, P, I) ==
    IF RegisterChecks(name, backend, force, B) # Ok
    THEN [err |-> RegisterChecks(name, backend, force, B),
          B |-> B, P |-> P, I |-> I]
    ELSE LET I1 == IF name.s \in DOMAIN B /\ force
                   THEN Evict(I, B[name.s]) ELSE I
             B1 == Put(B, name.s, backend)
         IN  IF prefixes.kind = "none"
             THEN [err |-> Ok, B |-> B1, P |-> P, I |-> I1]
             ELSE IF prefixes.kind = "other"
             THEN [err |-> BadPrefixesError, B |-> B1, P |-> P, I |-> I1]
             ELSE LET r == PrefixLoop(prefixes.items, backend, force, P, I1)
                  IN  [err |-> r.err, B |-> B1, P |-> r.P, I |-> r.I]

\* whether the call overrides an entry: it passes the checks of lines
\* 410-418 with force set and finds its name, or one of its prefixes,
\* registered
Overrides(name, backend, force, prefixes, B, P) ==
    /\ force
    /\ RegisterChecks(name, backend, force, B) = Ok
    /\ \/ name.s \in DOMAIN B
       \/ \E i \in 1..Len(prefixes.items) : prefixes.items[i] \in DOMAIN P

(***************************************************************************)
(* The calls a program makes, one at a time (a single thread).             *)
(***************************************************************************)
\* arguments the calls are made with
BackendArgs == {PyNone, PyStr("disk"), PyStr("lmdb"), PyStr("None")}

PrefixArgs == {PyNone, PyStr("http"), PyStr("s3")}

KwargsArgs ==
    {<<>>,
     <<<<"db_path", PyStr("a")>>, <<"readonly", PyBool(TRUE)>>>>,
     <<<<"readonly", PyBool(TRUE)>>, <<"db_path", PyStr("a")>>>>}

UriArgs ==
    {<<"/local/path">>, <<"http", Sep, "host/x">>, <<"https", Sep, "host/x">>,
     <<"s3", Sep, "bucket/x">>, <<"http", Sep, "host/x?next=s3", Sep, "y">>}

\* infer_client(file_client_args, uri)
InferArgs ==
    {<<NoArgs, uri>> : uri \in UriArgs}
        \cup {<<Args(PyStr("disk"), PyStr("http"), <<>>), <<"/local/path">>>>}

NameArgs == {PyStr("disk"), PyStr("None")}

ClassArgs == {"UserBackend"}

PrefixesArgs ==
    {NoPrefixes, OnePrefix("s3"), PrefixList(<<"s3", "http">>), BadPrefixes}

\* _register_backend(name, backend, force, prefixes): every call with a str
\* name and a backend class, and three calls that fail the type checks
RegisterArgs ==
    {<<name, backend, force, prefixes>> :
        name \in NameArgs, backend \in ClassArgs, force \in BOOLEAN,
        prefixes \in PrefixesArgs}
    \cup {<<PyInt("7"), "UserBackend", FALSE, NoPrefixes>>,
          <<PyStr("disk"), "NotAClass", TRUE, NoPrefixes>>,
          <<PyStr("None"), "PlainClass", FALSE, OnePrefix("s3")>>}

Environments == {{"lmdb", "mc"}}

rvars == <<backends, prefix_to_backends, instances, nextId, installed, calls,
          last, returned>>

tvars == <<pc, targs, tinst, tret>>

lvars == <<files, handles, platform, lp>>

dvars == <<dirs, fdata, gen, dout, dops>>

bvars == <<objs, conns, bout, bops>>

ivars == <<io, iops>>

vars == <<rvars, tvars, lvars, dvars, bvars, ivars>>

tables == <<backends, prefix_to_backends, instances>>

\* what a call leaves for its caller to see, with the arguments it was made
\* with: for a resolve the backend (name), prefix and, through infer_client,
\* the uri; for a registration the name, class (cls), force and the kind of
\* the prefixes argument (pkind), its prefixes (items) with the class each
\* was mapped to (pold), and whether the cache was left as it was (kept)
NoCall ==
    [op |-> "none", err |-> Ok, id |-> 0, built |-> FALSE, prev |-> 0,
     refetch |-> FALSE, expect |-> "", name |-> PyNone, prefix |-> PyNone,
     uri |-> <<>>, given |-> FALSE, cls |-> "", old |-> "", force |-> FALSE,
     pkind |-> "", over |-> FALSE, stale |-> {}, items |-> <<>>,
     pold |-> Empty, kept |-> TRUE]

Config(backend, prefix, kwargs) ==
    [backend |-> backend, prefix |-> prefix, kwargs |-> kwargs]

InitResolver ==
    /\ backends = InitBackends
    /\ prefix_to_backends = InitPrefixes
    /\ instances = Empty
    /\ nextId = 0
    /\ installed \in Environments
    /\ calls = 0
    /\ last = NoCall
    /\ returned = Empty

\* FileClient(backend, prefix, **kwargs), reached directly (op "resolve")
\* or through infer_client (op "infer")
Call(op, args, uri, backend, prefix, kwargs) ==
    LET r == NewClient(backend, prefix, kwargs, backends, prefix_to_backends,
                       instances, nextId, installed)
        cfg == Config(backend, prefix, kwargs)
        again == /\ last.op = "register" /\ last.err = Ok /\ last.over
                 /\ EffBackend(backend, prefix) = last.name
                 /\ ArgKey(backend, prefix, kwargs) \in last.stale
    IN  /\ calls < MaxCalls
        /\ calls' = calls + 1
        /\ instances' = r.I
        /\ nextId' = r.n
        /\ last' = [NoCall EXCEPT
                       !.op = op, !.err = r.err, !.id = r.id,
                       !.built = (r.n # nextId),
                       !.prev = IF cfg \in DOMAIN returned
                                THEN returned[cfg] ELSE 0,
                       !.refetch = again,
                       !.expect = IF again THEN last.cls ELSE "",
                       !.name = backend, !.prefix = prefix,
                       !.uri = uri, !.given = args.given]
        /\ returned' = IF r.err = Ok THEN Put(returned, cfg, r.id)
                        ELSE returned
        /\ UNCHANGED <<backends, prefix_to_backends, installed>>

Resolve(backend, prefix, kwargs) ==
    Call("resolve", NoArgs, <<>>, backend, prefix, kwargs)

InferClient(args, uri) ==
    LET c == InferCall(args, uri)
    IN  IF c.err # Ok
        THEN /\ calls < MaxCalls
             /\ calls' = calls + 1
             /\ last' = [NoCall EXCEPT !.op = "infer", !.err = c.err,
                                       !.uri = uri, !.given = args.given]
             /\ UNCHANGED <<backends, prefix_to_backends, instances,
                            nextId, installed, returned>>
        ELSE Call("infer", args, uri, c.backend, c.prefix, c.kwargs)

Register(name, backend, force, prefixes) ==
    LET r == RegisterBackend(name, backend, force, prefixes, backends,
                             prefix_to_backends, instances)
        known == name.t = "str" /\ name.s \in DOMAIN backends
        over == /\ force
                /\ RegisterChecks(name, backend, force, backends) = Ok
                /\ known
    IN  /\ calls < MaxCalls
        /\ calls' = calls + 1
        /\ backends' = r.B
        /\ prefix_to_backends' = r.P
        /\ instances' = r.I
        /\ last' = [NoCall EXCEPT
                       !.op = "register", !.err = r.err, !.name = name,
                       !.cls = backend, !.force = force,
                       !.pkind = prefixes.kind,
                       !.old = IF known THEN backends[name.s] ELSE "",
                       !.over = over,
                       !.stale = IF over
                                 THEN KeysOf(instances, backends[name.s])
                                 ELSE {},
                       !.items = prefixes.items,
                       !.pold = [q \in {prefixes.items[i] :
                                           i \in 1..Len(prefixes.items)}
                                        \cap DOMAIN prefix_to_backends |->
                                    prefix_to_backends[q]],
                       !.kept = (r.I = instances)]
        /\ returned' = IF Overrides(name, backend, force, prefixes, backends,
                                    prefix_to_backends)
                        THEN Empty ELSE returned
        /\ UNCHANGED <<nextId, installed>>

(***************************************************************************)
(* Threads inside FileClient.__new__.  The method takes no lock, so the    *)
(* interpreter may switch threads between any two of its statements: each  *)
(* thread is at one statement of lines 333-362.                            *)
(***************************************************************************)
NumThreads == 2

Threads == 1..NumThreads

ThreadConfigs ==
    { Config(PyNone, PyNone, <<>>),
      Config(PyStr("disk"), PyNone, <<>>),
      Config(PyNone, PyStr("http"), <<>>),
      Config(PyStr("lmdb"), PyNone, <<>>),
      Config(PyNone, PyStr("s3"), <<>>) }

NoInstance == [id |-> 0, type |-> ""]

IdleThreads ==
    /\ pc = [t \in Threads |-> "idle"]
    /\ targs = [t \in Threads |-> Config(PyNone, PyNone, <<>>)]
    /\ tinst = [t \in Threads |-> NoInstance]
    /\ tret = [t \in Threads |-> 0]

\* arg_key of the call thread t is in
TKey(t) == ArgKey(targs[t].backend, targs[t].prefix, targs[t].kwargs)

\* lines 333-348: the call starts, its arguments are checked, arg_key is built
TStart(t, cfg) ==
    /\ pc[t] = "idle"
    /\ targs' = [targs EXCEPT ![t] = cfg]
    /\ pc' = [pc EXCEPT ![t] =
                IF Validate(cfg.backend, cfg.prefix, backends,
                            prefix_to_backends) # Ok
                THEN "raised" ELSE "lookup"]
    /\ UNCHANGED <<rvars, tinst, tret, lvars, dvars, bvars, ivars>>

\* line 350: if arg_key in cls._instances
TLookup(t) ==
    /\ pc[t] = "lookup"
    /\ pc' = [pc EXCEPT ![t] =
                IF TKey(t) \in DOMAIN instances THEN "fetch" ELSE "construct"]
    /\ UNCHANGED <<rvars, targs, tinst, tret, lvars, dvars, bvars, ivars>>

\* line 351: _instance = cls._instances[arg_key]
TFetch(t) ==
    /\ pc[t] = "fetch"
    /\ tinst' = [tinst EXCEPT ![t] = instances[TKey(t)]]
    /\ pc' = [pc EXCEPT ![t] = "return"]
    /\ UNCHANGED <<rvars, targs, tret, lvars, dvars, bvars, ivars>>

\* lines 354-358: a new object and its backend are constructed
TConstruct(t) ==
    /\ pc[t] = "construct"
    /\ LET c == ChosenClass(targs[t].backend, targs[t].prefix, backends,
                            prefix_to_backends)
       IN  IF Construct(c, targs[t].kwargs, installed) # Ok
           THEN /\ pc' = [pc EXCEPT ![t] = "raised"]
                /\ UNCHANGED <<nextId, tinst>>
           ELSE /\ nextId' = nextId + 1
                /\ tinst' = [tinst EXCEPT ![t] =
                                [id |-> nextId + 1, type |-> c]]
                /\ pc' = [pc EXCEPT ![t] = "store"]
    /\ UNCHANGED <<backends, prefix_to_backends, instances, installed, calls,
                   last, returned, targs, tret, lvars, dvars, bvars, ivars>>

\* line 360: cls._instances[arg_key] = _instance
TStore(t) ==
    /\ pc[t] = "store"
    /\ instances' = Put(instances, TKey(t), tinst[t])
    /\ pc' = [pc EXCEPT ![t] = "return"]
    /\ UNCHANGED <<backends, prefix_to_backends, nextId, installed, calls,
                   last, returned, targs, tinst, tret, lvars, dvars, bvars, ivars>>

\* line 362: return _instance
TReturn(t) ==
    /\ pc[t] = "return"
    /\ tret' = [tret EXCEPT ![t] = tinst[t].id]
    /\ pc' = [pc EXCEPT ![t] = "done"]
    /\ UNCHANGED <<rvars, targs, tinst, lvars, dvars, bvars, ivars>>

(***************************************************************************)
(* HTTPBackend.get_local_path, used in a with statement directly or        *)
(* through FileClient.get_local_path, which only wraps it in a with        *)
(* statement of its own.  A temporary file is named by the block that      *)
(* created it: tempfile never hands out the name of an existing file.      *)
(***************************************************************************)
NumBlocks == 2

Blocks == 1..NumBlocks

Platforms == {"posix", "nt"}

Entries == {"HTTPBackend", "FileClient"}

Outside == [at |-> "outside", via |-> "", f |-> 0, exc |-> "", how |-> ""]

NoBlocks ==
    /\ files = {}
    /\ handles = {}
    /\ lp = [b \in Blocks |-> Outside]

\* os.remove(name): an open file can be removed on POSIX and not on Windows
OsRemove(name, fs, open, os) ==
    IF name \notin fs
    THEN [err |-> "FileNotFoundError", files |-> fs]
    ELSE IF name \in open /\ os = "nt"
    THEN [err |-> "PermissionError", files |-> fs]
    ELSE [err |-> "", files |-> fs \ {name}]

\* the with statement is entered: the generator runs up to line 273
LpEnter(b, via) ==
    /\ lp[b].at = "outside"
    /\ lp' = [lp EXCEPT ![b] = [Outside EXCEPT !.at = "mktemp", !.via = via]]
    /\ UNCHANGED <<rvars, tvars, dvars, bvars, ivars, files, handles,
                   platform>>

\* line 274: f = tempfile.NamedTemporaryFile(delete=False)
LpMkTemp(b) ==
    /\ lp[b].at = "mktemp"
    /\ \/ /\ files' = files \cup {b}
          /\ handles' = handles \cup {b}
          /\ lp' = [lp EXCEPT ![b].at = "download", ![b].f = b]
       \/ /\ lp' = [lp EXCEPT ![b].at = "finally", ![b].exc = "OSError"]
          /\ UNCHANGED <<files, handles>>
    /\ UNCHANGED <<rvars, tvars, dvars, bvars, ivars, platform>>

\* line 275: f.write(self.get(filepath))
LpDownload(b) ==
    /\ lp[b].at = "download"
    /\ \E exc \in {"", "URLError", "OSError"} :
          lp' = [lp EXCEPT ![b].at = IF exc = "" THEN "close" ELSE "finally",
                           ![b].exc = exc]
    /\ UNCHANGED <<rvars, tvars, dvars, bvars, ivars, files, handles,
                   platform>>

\* lines 276-277: f.close(); yield f.name -- the body of the with runs
LpClose(b) ==
    /\ lp[b].at = "close"
    /\ handles' = handles \ {lp[b].f}
    /\ lp' = [lp EXCEPT ![b].at = "block"]
    /\ UNCHANGED <<rvars, tvars, dvars, bvars, ivars, files, platform>>

\* the body of the with statement ends: it completes, raises or returns
LpLeave(b, how) ==
    /\ lp[b].at = "block"
    /\ lp' = [lp EXCEPT ![b].at = "finally", ![b].how = how,
                        ![b].exc = IF how = "error" THEN "Error" ELSE ""]
    /\ UNCHANGED <<rvars, tvars, dvars, bvars, ivars, files, handles,
                   platform>>

\* lines 278-279: finally: os.remove(f.name)
LpFinally(b) ==
    /\ lp[b].at = "finally"
    /\ IF lp[b].f = 0
       THEN /\ lp' = [lp EXCEPT ![b].at = "left",
                                ![b].exc = "UnboundLocalError"]
            /\ UNCHANGED files
       ELSE LET out == OsRemove(lp[b].f, files, handles, platform)
            IN  /\ files' = out.files
                /\ lp' = [lp EXCEPT ![b].at = "left",
                                    ![b].exc = IF out.err # "" THEN out.err
                                               ELSE lp[b].exc]
    /\ UNCHANGED <<rvars, tvars, dvars, bvars, ivars, handles, platform>>

(***************************************************************************)
(* HardDiskBackend over a file system.  A path is the sequence of its      *)
(* components and a component the sequence of its pieces, so that          *)
(* "d/f.txt" is <<<<"d">>, <<"f", ".txt">>>>; the empty sequence is the    *)
(* current directory, under which every path lies.                         *)
(***************************************************************************)
MaxDiskOps == 3

\* the home directory of the user
Home == << <<"home">> >>

\* osp.expanduser(path)
ExpandUser(path) ==
    IF path # <<>> /\ path[1] = <<"~">> THEN Home \o Tail(path) ELSE path

\* osp.dirname(path)
Dirname(path) == IF path = <<>> THEN <<>> ELSE SubSeq(path, 1, Len(path) - 1)

\* the directories a path goes through, the path itself included
Prefixes(path) == {SubSeq(path, 1, i) : i \in 1..Len(path)}

\* the directories above a path
Ancestors(path) == Prefixes(Dirname(path))

\* os.makedirs(name) without exist_ok: an existing directory is an error
MakeDirsOnce(name, ds, fs) ==
    IF name \in DOMAIN fs \/ name \in ds
    THEN [err |-> "FileExistsError", dirs |-> ds]
    ELSE IF \E q \in Prefixes(name) : q \in DOMAIN fs
    THEN [err |-> "NotADirectoryError", dirs |-> ds]
    ELSE [err |-> "", dirs |-> ds \cup Prefixes(name)]

\* os.makedirs(name, exist_ok=True) on directories ds and files fs
MakeDirs(name, ds, fs) ==
    IF name \in DOMAIN fs THEN [err |-> "FileExistsError", dirs |-> ds]
    ELSE IF \E q \in Prefixes(name) : q \in DOMAIN fs
    THEN [err |-> "NotADirectoryError", dirs |-> ds]
    ELSE [err |-> "", dirs |-> ds \cup Prefixes(name)]

\* mkdir_or_exist(dir_name)
MkdirOrExist(dir_name, ds, fs) ==
    IF dir_name = <<>> THEN [err |-> "", dirs |-> ds]
    ELSE MakeDirs(ExpandUser(dir_name), ds, fs)

\* what open(path) raises, for writing or for reading
OpenError(path, mode, ds, fs) ==
    IF path = <<>> THEN "FileNotFoundError"
    ELSE IF path \in ds THEN "IsADirectoryError"
    ELSE IF \E q \in Ancestors(path) : q \in DOMAIN fs
    THEN "NotADirectoryError"
    ELSE IF ~(Ancestors(path) \subseteq ds) THEN "FileNotFoundError"
    ELSE IF mode = "rb" /\ path \notin DOMAIN fs THEN "FileNotFoundError"
    ELSE ""

\* HardDiskBackend.put(obj, filepath): the exception raised and the file
\* system it leaves
DiskPut(obj, filepath, ds, fs) ==
    LET m == MkdirOrExist(Dirname(filepath), ds, fs)
    IN  IF m.err # "" THEN [err |-> m.err, dirs |-> ds, files |-> fs]
        ELSE IF OpenError(filepath, "wb", m.dirs, fs) # ""
        THEN [err |-> OpenError(filepath, "wb", m.dirs, fs),
              dirs |-> m.dirs, files |-> fs]
        ELSE [err |-> "", dirs |-> m.dirs, files |-> Put(fs, filepath, obj)]

\* HardDiskBackend.get(filepath)
DiskGet(filepath, ds, fs) ==
    IF OpenError(filepath, "rb", ds, fs) # ""
    THEN [err |-> OpenError(filepath, "rb", ds, fs), value |-> ""]
    ELSE [err |-> "", value |-> fs[filepath]]

\* the components and paths the calls are made with
CompD == <<"d">>

CompE == <<"e">>

CompF == <<"f", ".txt">>

CompG == <<"g", ".bin">>

CompH == <<".", "h">>

PathArgs ==
    { <<>>, <<CompF>>, <<CompD>>, <<CompD, CompF>>, <<CompD, CompE, CompG>>,
      <<CompD, CompF, CompG>>, <<CompD, CompH>>, <<CompH, CompF>>,
      << <<"~">>, CompD, CompF >>, Home \o <<CompD>> }

DataArgs == {"x", "y"}

\* the suffix argument: None, a str, a tuple of str, or anything else
NoSuffix == [kind |-> "none", items |-> {}]

StrSuffix(x) == [kind |-> "str", items |-> {x}]

TupleSuffix(xs) == [kind |-> "tuple", items |-> xs]

BadSuffix == [kind |-> "other", items |-> {}]

\* list_dir, list_file, suffix and recursive
ListOpts(list_dir, list_file, suffix, recursive) ==
    [list_dir |-> list_dir, list_file |-> list_file, suffix |-> suffix,
     recursive |-> recursive]

ListOptArgs ==
    { ListOpts(TRUE, TRUE, NoSuffix, FALSE),
      ListOpts(TRUE, TRUE, NoSuffix, TRUE),
      ListOpts(FALSE, TRUE, NoSuffix, TRUE),
      ListOpts(FALSE, TRUE, StrSuffix(<<".txt">>), FALSE),
      ListOpts(FALSE, TRUE, TupleSuffix({<<".txt">>, <<".bin">>}), TRUE),
      ListOpts(TRUE, TRUE, StrSuffix(<<".txt">>), FALSE),
      ListOpts(FALSE, TRUE, BadSuffix, FALSE) }

\* the directories listed: the current directory and two below it
DirArgs == { <<>>, <<CompD>>, <<CompE>> }

\* who is asked: the backend, or the FileClient that holds it
Facades == {"HardDiskBackend", "FileClient"}

NoGen ==
    [via |-> "", dir |-> <<>>, opts |-> ListOpts(TRUE, TRUE, NoSuffix, FALSE)]

NoDiskCall ==
    [op |-> "none", err |-> "", path |-> <<>>, value |-> "", obj |-> "",
     afterput |-> FALSE, parents |-> FALSE, via |-> "",
     opts |-> ListOpts(TRUE, TRUE, NoSuffix, FALSE), entries |-> <<>>,
     method |-> "", ret |-> PyNone, expect |-> PyNone, after |-> "",
     parts |-> <<>>, joined |-> <<>>, frames |-> 0]

\* the checks of lines 216-220
ListChecks(list_dir, suffix) ==
    IF list_dir /\ suffix.kind # "none" THEN "TypeError"
    ELSE IF suffix.kind \notin {"none", "str", "tuple"} THEN "TypeError"
    ELSE ""

\* os.scandir(dir_path): the entries of the directory
ScanDir(dir_path, ds, fs) ==
    {q \in ds \cup DOMAIN fs :
        Len(q) = Len(dir_path) + 1 /\ SubSeq(q, 1, Len(dir_path)) = dir_path}

\* osp.relpath(path, root) for a path below root
RelPath(path, root) == SubSeq(path, Len(root) + 1, Len(path))

\* entry.name.startswith('.')
IsHidden(entry) == entry[Len(entry)][1] = "."

\* rel_path.endswith(suffix) for a suffix without separator
EndsWith(rel_path, suffix) ==
    LET name == rel_path[Len(rel_path)]
    IN  \E x \in suffix.items :
            /\ Len(x) <= Len(name)
            /\ SubSeq(name, Len(name) - Len(x) + 1, Len(name)) = x

\* _list_dir_or_file (lines 224-239): what the generator yields, in the
\* order it yields it; ListOver is the for loop over the entries not yet
\* visited
RECURSIVE ListOver(_, _, _, _, _)
RECURSIVE ListDirOrFile(_, _, _, _, _)
ListOver(entries, root, opts, ds, fs) ==
    IF entries = {} THEN <<>>
    ELSE LET entry == CHOOSE e \in entries : TRUE
             rel_path == RelPath(entry, root)
             yielded ==
                IF ~IsHidden(entry) /\ entry \in DOMAIN fs
                THEN IF (opts.suffix.kind = "none"
                         \/ EndsWith(rel_path, opts.suffix)) /\ opts.list_file
                     THEN <<rel_path>>
                     ELSE IF entry \in ds
                     THEN (IF opts.list_dir THEN <<rel_path>> ELSE <<>>)
                          \o (IF opts.recursive
                              THEN ListDirOrFile(entry, root, opts, ds, fs)
                              ELSE <<>>)
                     ELSE <<>>
                ELSE <<>>
         IN  yielded \o ListOver(entries \ {entry}, root, opts, ds, fs)

ListDirOrFile(dir_path, root, opts, ds, fs) ==
    ListOver(ScanDir(dir_path, ds, fs), root, opts, ds, fs)

\* what os.scandir(dir_path) raises
ScanError(dir_path, ds, fs) ==
    IF dir_path \in DOMAIN fs THEN "NotADirectoryError"
    ELSE IF dir_path # <<>> /\ dir_path \notin ds THEN "FileNotFoundError"
    ELSE ""

NoDisk ==
    /\ dirs = {Home}
    /\ fdata = Empty
    /\ gen = NoGen
    /\ dout = NoDiskCall
    /\ dops = 0

\* client.put(obj, filepath) on a disk backend
DiskPutCall(obj, filepath) ==
    LET r == DiskPut(obj, filepath, dirs, fdata)
    IN  /\ dops < MaxDiskOps
        /\ dops' = dops + 1
        /\ dirs' = r.dirs
        /\ fdata' = r.files
        /\ dout' = [NoDiskCall EXCEPT
                       !.op = "put", !.err = r.err, !.path = filepath,
                       !.obj = obj,
                       !.parents = /\ Ancestors(filepath) \subseteq dirs
                                   /\ filepath \notin dirs
                                   /\ filepath # <<>>]
        /\ UNCHANGED <<gen, rvars, tvars, lvars, bvars, ivars>>

\* client.get(filepath) on a disk backend
DiskGetCall(filepath) ==
    LET r == DiskGet(filepath, dirs, fdata)
    IN  /\ dops < MaxDiskOps
        /\ dops' = dops + 1
        /\ dout' = [NoDiskCall EXCEPT
                       !.op = "get", !.err = r.err, !.path = filepath,
                       !.value = r.value,
                       !.obj = dout.obj,
                       !.afterput = /\ dout.op = "put" /\ dout.err = ""
                                    /\ dout.path = filepath]
        /\ UNCHANGED <<dirs, fdata, gen, rvars, tvars, lvars, bvars, ivars>>

\* list_dir_or_file(dir_path, ...) is called on the backend, whose body
\* runs the checks and returns a generator, or on the FileClient, whose
\* body is itself a generator (it holds a yield from) and runs nothing
\* until the generator is iterated
ListCall(via, dir_path, opts) ==
    LET err == IF via = "HardDiskBackend"
               THEN ListChecks(opts.list_dir, opts.suffix) ELSE ""
    IN  /\ dops < MaxDiskOps
        /\ dops' = dops + 1
        /\ gen' = IF err = ""
                  THEN [via |-> via, dir |-> dir_path, opts |-> opts]
                  ELSE NoGen
        /\ dout' = [NoDiskCall EXCEPT
                       !.op = "list", !.err = err, !.path = dir_path,
                       !.via = via, !.opts = opts]
        /\ UNCHANGED <<dirs, fdata, rvars, tvars, lvars, bvars, ivars>>

\* list(generator): the generator returned last is run to its end
Consume ==
    LET late == IF gen.via = "FileClient"
                THEN ListChecks(gen.opts.list_dir, gen.opts.suffix) ELSE ""
        err == IF late # "" THEN late ELSE ScanError(gen.dir, dirs, fdata)
    IN  /\ gen.via # ""
        /\ dops < MaxDiskOps
        /\ dops' = dops + 1
        /\ gen' = NoGen
        /\ dout' = [NoDiskCall EXCEPT
                       !.op = "consume", !.err = err, !.path = gen.dir,
                       !.via = gen.via, !.opts = gen.opts,
                       !.entries = IF err # "" THEN <<>>
                                   ELSE ListDirOrFile(gen.dir, gen.dir,
                                                      gen.opts, dirs, fdata)]
        /\ UNCHANGED <<dirs, fdata, rvars, tvars, lvars, bvars, ivars>>

(***************************************************************************)
(* The queries, remove and join_path, asked of the backend or of the       *)
(* FileClient that holds it.                                               *)
(***************************************************************************)
\* the frames the interpreter allows before it raises RecursionError
RecursionLimit == 3

QueryMethods == {"exists", "isdir", "isfile"}

\* osp.exists, osp.isdir and osp.isfile; the empty path names nothing
OsExists(path, ds, fs) == path # <<>> /\ (path \in ds \/ path \in DOMAIN fs)

OsIsDir(path, ds, fs) == path # <<>> /\ path \in ds

OsIsFile(path, ds, fs) == path # <<>> /\ path \in DOMAIN fs

\* HardDiskBackend.exists, isdir and isfile: the value returned
DiskQuery(method, filepath, ds, fs) ==
    CASE method = "exists" -> PyBool(OsExists(filepath, ds, fs))
      [] method = "isdir"  -> PyBool(OsIsDir(filepath, ds, fs))
      [] method = "isfile" -> PyBool(OsIsFile(filepath, ds, fs))

\* FileClient.exists, isdir and isfile: the backend is asked and its answer
\* is dropped, the body holding no return statement
ClientQuery(method, filepath, ds, fs) ==
    LET answer == DiskQuery(method, filepath, ds, fs)
    IN  PyNone

\* os.remove(filepath): the exception raised and the files left; removing
\* a directory raises a subclass of OSError that depends on the platform
DiskRemove(filepath, ds, fs) ==
    IF OsIsDir(filepath, ds, fs) THEN [err |-> "OSError", files |-> fs]
    ELSE IF ~OsIsFile(filepath, ds, fs)
    THEN [err |-> "FileNotFoundError", files |-> fs]
    ELSE [err |-> "", files |-> Drop(fs, {filepath})]

\* osp.join(filepath, *filepaths) for relative paths
RECURSIVE OsJoin(_, _)
OsJoin(filepath, filepaths) ==
    IF filepaths = <<>> THEN filepath
    ELSE OsJoin(filepath \o filepaths[1], Tail(filepaths))

\* HardDiskBackend.join_path
DiskJoinPath(filepath, filepaths) ==
    [err |-> "", joined |-> OsJoin(filepath, filepaths), frames |-> 0]

\* FileClient.join_path with frames of it on the stack: line 517 calls
\* self.join_path, the method itself, until the interpreter refuses a frame
RECURSIVE ClientJoinPath(_, _, _)
ClientJoinPath(filepath, filepaths, frames) ==
    IF frames >= RecursionLimit
    THEN [err |-> "RecursionError", joined |-> <<>>, frames |-> frames]
    ELSE ClientJoinPath(filepath, filepaths, frames + 1)

\* the further parts join_path is called with
PartsArgs == {<<>>, << <<CompF>> >>, << <<CompE>>, <<CompG>> >>}

\* exists, isdir or isfile called with filepath
QueryCall(via, method, filepath) ==
    /\ dops < MaxDiskOps
    /\ dops' = dops + 1
    /\ dout' = [NoDiskCall EXCEPT
                   !.op = "query", !.via = via, !.method = method,
                   !.path = filepath,
                   !.ret = IF via = "FileClient"
                           THEN ClientQuery(method, filepath, dirs, fdata)
                           ELSE DiskQuery(method, filepath, dirs, fdata),
                   !.expect = DiskQuery(method, filepath, dirs, fdata),
                   !.after = IF /\ dout.op \in {"put", "remove"}
                                /\ dout.err = "" /\ dout.path = filepath
                             THEN dout.op ELSE ""]
    /\ UNCHANGED <<dirs, fdata, gen, rvars, tvars, lvars, bvars, ivars>>

\* remove(filepath): FileClient.remove hands the call to the backend
RemoveCall(via, filepath) ==
    LET r == DiskRemove(filepath, dirs, fdata)
    IN  /\ dops < MaxDiskOps
        /\ dops' = dops + 1
        /\ fdata' = r.files
        /\ dout' = [NoDiskCall EXCEPT
                       !.op = "remove", !.via = via, !.err = r.err,
                       !.path = filepath]
        /\ UNCHANGED <<dirs, gen, rvars, tvars, lvars, bvars, ivars>>

\* join_path(filepath, *filepaths)
JoinPathCall(via, filepath, filepaths) ==
    LET r == IF via = "FileClient"
             THEN ClientJoinPath(filepath, filepaths, 1)
             ELSE DiskJoinPath(filepath, filepaths)
    IN  /\ dops < MaxDiskOps
        /\ dops' = dops + 1
        /\ dout' = [NoDiskCall EXCEPT
                       !.op = "join", !.via = via, !.err = r.err,
                       !.path = filepath, !.parts = filepaths,
                       !.joined = r.joined,
                       !.frames = IF via = "FileClient" THEN r.frames
                                  ELSE 0]
        /\ UNCHANGED <<dirs, fdata, gen, rvars, tvars, lvars, bvars, ivars>>

(***************************************************************************)
(* Backend objects from construction to teardown.  An object is built by   *)
(* FileClient(...), which caches it, or by calling its class; it is used   *)
(* through get, put, put_text and remove; it is torn down when the last    *)
(* reference to it goes away.                                              *)
(***************************************************************************)
MaxBackendOps == 3

\* the optional libraries
Libraries == {"lmdb", "mc"}

LmdbKwargs == << <<"db_path", PyStr("a")>> >>

McKwargs ==
    << <<"server_list_cfg", PyStr("s")>>, <<"client_cfg", PyStr("c")>> >>

BackendConfigs ==
    { Config(PyStr("lmdb"), PyNone, LmdbKwargs),
      Config(PyStr("lmdb"), PyNone, <<>>),
      Config(PyStr("memcached"), PyNone, McKwargs),
      Config(PyStr("http"), PyNone, <<>>),
      Config(PyNone, PyNone, <<>>) }

\* the methods of FileClient that write
WriteMethods == {"put", "put_text", "remove"}

NoBackendCall ==
    [op |-> "none", err |-> Ok, id |-> 0, cls |-> "", key |-> "",
     cached |-> FALSE, lib |-> TRUE, sig |-> TRUE, retry |-> FALSE]

NoObjects ==
    /\ objs = Empty
    /\ conns = Empty
    /\ bout = NoBackendCall
    /\ bops = 0

\* the library whose import the constructor of class c attempts
LibraryOf(c) ==
    CASE c = "LmdbBackend" -> "lmdb"
      [] c = "MemcachedBackend" -> "mc"
      [] OTHER -> ""

\* self._client as __init__ leaves it: MemcachedBackend connects (line 59),
\* LmdbBackend sets None (line 108), the others have no such attribute
ClientAfterInit(c) ==
    CASE c = "MemcachedBackend" -> "connection"
      [] c = "LmdbBackend" -> "None"
      [] OTHER -> "unset"

\* the connections object id holds that are open
OpenConns(id) == {k \in DOMAIN conns : conns[k].owner = id /\ conns[k].open}

\* the object constructed with identity id, and the connection its
\* constructor opened
Built(id, c) ==
    [cls |-> c, client |-> ClientAfterInit(c), used |-> FALSE, alive |-> TRUE]

ConnsAfterInit(id, c) ==
    IF ClientAfterInit(c) = "connection"
    THEN Put(conns, Cardinality(DOMAIN conns) + 1,
             [owner |-> id, open |-> TRUE])
    ELSE conns

\* FileClient(backend, prefix, ...) with the cache
BResolve(cfg) ==
    LET r == NewClient(cfg.backend, cfg.prefix, cfg.kwargs, backends,
                       prefix_to_backends, instances, nextId, installed)
        c == ChosenClass(cfg.backend, cfg.prefix, backends,
                         prefix_to_backends)
        key == ArgKey(cfg.backend, cfg.prefix, cfg.kwargs)
    IN  /\ bops < MaxBackendOps
        /\ bops' = bops + 1
        /\ instances' = r.I
        /\ nextId' = r.n
        /\ objs' = IF r.n # nextId THEN Put(objs, r.id, Built(r.id, c))
                   ELSE objs
        /\ conns' = IF r.n # nextId THEN ConnsAfterInit(r.id, c) ELSE conns
        /\ bout' = [NoBackendCall EXCEPT
                       !.op = "resolve", !.err = r.err, !.id = r.id,
                       !.cls = c, !.key = key,
                       !.cached = key \in DOMAIN instances,
                       !.lib = LibraryOf(c) \in installed \cup {""},
                       !.sig = Construct(c, cfg.kwargs, Libraries) = Ok,
                       !.retry = /\ bout.op = "resolve" /\ bout.key = key
                                 /\ bout.err.type = "ImportError"]
        /\ UNCHANGED <<backends, prefix_to_backends, installed, calls, last,
                       returned, tvars, lvars, dvars, ivars>>

\* c(...): the class is called, nothing is cached
BConstruct(cfg) ==
    LET c == ChosenClass(cfg.backend, cfg.prefix, backends,
                         prefix_to_backends)
        err == Construct(c, cfg.kwargs, installed)
    IN  /\ bops < MaxBackendOps
        /\ bops' = bops + 1
        /\ nextId' = IF err = Ok THEN nextId + 1 ELSE nextId
        /\ objs' = IF err = Ok
                   THEN Put(objs, nextId + 1, Built(nextId + 1, c)) ELSE objs
        /\ conns' = IF err = Ok THEN ConnsAfterInit(nextId + 1, c) ELSE conns
        /\ bout' = [NoBackendCall EXCEPT
                       !.op = "construct", !.err = err,
                       !.id = IF err = Ok THEN nextId + 1 ELSE 0,
                       !.cls = c,
                       !.lib = LibraryOf(c) \in installed \cup {""}]
        /\ UNCHANGED <<backends, prefix_to_backends, instances, installed,
                       calls, last, returned, tvars, lvars, dvars, ivars>>

\* get(filepath) on object id; opened tells whether lmdb.open succeeds
BGet(id, opened) ==
    LET o == objs[id]
        first == /\ o.cls = "LmdbBackend" /\ o.client = "None"
                 /\ LibraryOf(o.cls) \in installed
        opens == first /\ opened
        fails == first /\ ~opened
    IN  /\ bops < MaxBackendOps
        /\ o.alive
        /\ bops' = bops + 1
        /\ objs' = [objs EXCEPT
                       ![id].used = TRUE,
                       ![id].client = IF opens THEN "connection"
                                      ELSE o.client]
        /\ conns' = IF opens
                    THEN Put(conns, Cardinality(DOMAIN conns) + 1,
                             [owner |-> id, open |-> TRUE])
                    ELSE conns
        /\ bout' = [NoBackendCall EXCEPT
                       !.op = "get", !.id = id, !.cls = o.cls,
                       !.err = IF LibraryOf(o.cls) \notin installed \cup {""}
                               THEN Raise("ImportError", "No module named '"
                                            \o LibraryOf(o.cls) \o "'")
                               ELSE IF fails THEN Raise("lmdb.Error", "")
                               ELSE Ok]
        /\ UNCHANGED <<rvars, tvars, lvars, dvars, ivars>>

\* what looking up attribute method on a backend of class c raises
MethodError(c, method) ==
    IF c = "HardDiskBackend" THEN Ok
    ELSE Raise("AttributeError",
               "'" \o c \o "' object has no attribute '" \o method \o "'")

\* FileClient.put, put_text and remove (lines 486-504) on object id
BWrite(id, method) ==
    LET o == objs[id]
        err == MethodError(o.cls, method)
        r == DiskPut("x", <<CompF>>, dirs, fdata)
    IN  /\ bops < MaxBackendOps
        /\ o.alive
        /\ bops' = bops + 1
        /\ dirs' = IF err = Ok /\ method # "remove" THEN r.dirs ELSE dirs
        /\ fdata' = IF err # Ok THEN fdata
                    ELSE IF method = "remove"
                    THEN Drop(fdata, {<<CompF>>})
                    ELSE r.files
        /\ bout' = [NoBackendCall EXCEPT
                       !.op = method, !.id = id, !.cls = o.cls,
                       !.err = IF err # Ok THEN err
                               ELSE IF method = "remove"
                                       /\ <<CompF>> \notin DOMAIN fdata
                               THEN Raise("FileNotFoundError", "")
                               ELSE Ok]
        /\ UNCHANGED <<rvars, tvars, lvars, gen, dout, dops, objs, conns,
                       ivars>>

\* __del__ of the class of an object whose _client is client (lines
\* 138-139): the exception self._client.close() ends with
DelError(c, client) ==
    IF c # "LmdbBackend" THEN Ok
    ELSE IF client = "None"
    THEN Raise("AttributeError",
               "'NoneType' object has no attribute 'close'")
    ELSE Ok

\* the last reference to object id goes away: it leaves the cache, if it
\* was there, and its class' __del__ runs
BDiscard(id) ==
    LET o == objs[id]
        err == DelError(o.cls, o.client)
    IN  /\ bops < MaxBackendOps
        /\ o.alive
        /\ bops' = bops + 1
        /\ instances' = Drop(instances,
                             {k \in DOMAIN instances : instances[k].id = id})
        /\ objs' = [objs EXCEPT ![id].alive = FALSE]
        /\ conns' = IF o.cls = "LmdbBackend" /\ err = Ok
                    THEN [k \in DOMAIN conns |->
                            IF conns[k].owner = id
                            THEN [conns[k] EXCEPT !.open = FALSE]
                            ELSE conns[k]]
                    ELSE conns
        /\ bout' = [NoBackendCall EXCEPT
                       !.op = "discard", !.id = id, !.cls = o.cls,
                       !.err = err]
        /\ UNCHANGED <<backends, prefix_to_backends, nextId, installed,
                       calls, last, returned, tvars, lvars, dvars, ivars>>

\* a library is installed between two calls
Install(lib) ==
    /\ lib \notin installed
    /\ installed' = installed \cup {lib}
    /\ UNCHANGED <<backends, prefix_to_backends, instances, nextId, calls,
                   last, returned, tvars, lvars, dvars, bvars, ivars>>

(***************************************************************************)
(* io.dump(obj, file, file_format, file_client_args).  The file argument   *)
(* is None, a str (a scheme, possibly none, and a path), an object with a  *)
(* write method, or anything else.                                         *)
(***************************************************************************)
MaxIoOps == 2

\* file_handlers (io.py lines 11-13)
FileHandlers == {"json"}

\* JsonHandler.dump_to_str(obj), and what dump_to_fileobj writes: the JSON
\* text of obj
Encode(obj) ==
    CASE obj.t = "none" -> "null"
      [] obj.t = "bool" -> IF obj.b THEN "true" ELSE "false"
      [] obj.t = "int" -> obj.s
      [] obj.t = "str" -> "\"" \o obj.s \o "\""

\* JsonHandler.str_like
StrLike(format) == TRUE

NoFile == [kind |-> "none", scheme |-> "", path |-> <<>>]

StrFile(scheme, path) == [kind |-> "str", scheme |-> scheme, path |-> path]

Stream == [kind |-> "stream", scheme |-> "", path |-> <<>>]

NotAFile == [kind |-> "other", scheme |-> "", path |-> <<>>]

CompJ == <<"o", ".json">>

FileArgs ==
    { NoFile, Stream, NotAFile, StrFile("", <<CompD, CompJ>>),
      StrFile("", <<CompF>>), StrFile("", <<CompD>>),
      StrFile("http", <<CompJ>>) }

FormatArgs == {PyNone, PyStr("json"), PyStr("yaml")}

ObjArgs == {PyInt("7"), PyStr("a")}

ClientArgs == {NoArgs, Args(PyStr("disk"), PyNone, <<>>)}

\* the str a piece of a file name stands for
RECURSIVE JoinPieces(_)
JoinPieces(name) ==
    IF name = <<>> THEN "" ELSE name[1] \o JoinPieces(Tail(name))

\* file.split('.')[-1] for a str file: the text after the last dot, which
\* is the whole of the last component when it has no dot
LastDotPart(file) ==
    LET name == file.path[Len(file.path)]
        ext == name[Len(name)]
    IN  CASE ext = ".json" -> "json"
          [] ext = ".txt" -> "txt"
          [] ext = ".bin" -> "bin"
          [] OTHER -> JoinPieces(name)

\* the str a str file is, cut at its separator, for parse_uri_prefix
UriOf(file) ==
    IF file.scheme = "" THEN <<"path">> ELSE <<file.scheme, Sep, "path">>

\* the same str as a path of the local file system
PathOf(file) ==
    IF file.scheme = "" THEN file.path
    ELSE << <<file.scheme, ":">> >> \o file.path

NoIoCall ==
    [op |-> "none", err |-> Ok, value |-> "", file |-> NoFile,
     format |-> PyNone, obj |-> PyNone, stream |-> ""]

NoIo ==
    /\ io = NoIoCall
    /\ iops = 0

\* lines 82-89 without the raise of lines 85-87
DumpFormatUnchecked(file, file_format) ==
    LET fmt == IF file_format.t = "none" /\ file.kind = "str"
               THEN PyStr(LastDotPart(file)) ELSE file_format
    IN  IF ~(fmt.t = "str" /\ fmt.s \in FileHandlers)
        THEN [err |-> Raise("TypeError", "Unsupported format: " \o Format(fmt)),
              format |-> fmt]
        ELSE [err |-> Ok, format |-> fmt]

\* lines 82-89: the format the call settles on, or the exception
DumpFormat(file, file_format) ==
    LET fmt == IF file_format.t = "none" /\ file.kind = "str"
               THEN PyStr(LastDotPart(file)) ELSE file_format
    IN  IF file_format.t = "none" /\ file.kind = "none"
        THEN [err |-> Raise("ValueError",
                  "file_format must be specified since file is None"),
              format |-> fmt]
        ELSE IF ~(fmt.t = "str" /\ fmt.s \in FileHandlers)
        THEN [err |-> Raise("TypeError", "Unsupported format: " \o Format(fmt)),
              format |-> fmt]
        ELSE [err |-> Ok, format |-> fmt]

\* dump(obj, file, file_format, file_client_args)
Dump(obj, file, file_format, args) ==
    LET f == DumpFormat(file, file_format)
        c == InferCall(args, UriOf(file))
        r == NewClient(c.backend, c.prefix, c.kwargs, backends,
                       prefix_to_backends, instances, nextId, installed)
        cls == ChosenClass(c.backend, c.prefix, backends, prefix_to_backends)
        w == DiskPut(Encode(obj), PathOf(file), dirs, fdata)
        resolves == f.err = Ok /\ file.kind = "str" /\ c.err = Ok
        writes == resolves /\ r.err = Ok /\ MethodError(cls, "put_text") = Ok
        err == IF f.err # Ok THEN f.err
               ELSE IF file.kind = "none" \/ file.kind = "stream" THEN Ok
               ELSE IF file.kind = "other"
               THEN Raise("TypeError",
                          "\"file\" must be a filename str or a file-object")
               ELSE IF c.err # Ok THEN c.err
               ELSE IF r.err # Ok THEN r.err
               ELSE IF MethodError(cls, "put_text") # Ok
               THEN MethodError(cls, "put_text")
               ELSE Raise(w.err, "")
    IN  /\ iops < MaxIoOps
        /\ iops' = iops + 1
        /\ instances' = IF resolves THEN r.I ELSE instances
        /\ nextId' = IF resolves THEN r.n ELSE nextId
        /\ dirs' = IF writes THEN w.dirs ELSE dirs
        /\ fdata' = IF writes THEN w.files ELSE fdata
        /\ io' = [NoIoCall EXCEPT
                     !.op = "dump", !.err = err, !.file = file,
                     !.format = file_format, !.obj = obj,
                     !.value = IF err = Ok /\ file.kind = "none"
                               THEN Encode(obj) ELSE "",
                     !.stream = IF err = Ok /\ file.kind = "stream"
                                THEN Encode(obj) ELSE ""]
        /\ UNCHANGED <<backends, prefix_to_backends, installed, calls, last,
                       returned, tvars, lvars, gen, dout, dops, bvars>>

(***************************************************************************)
(* The specifications.                                                     *)
(***************************************************************************)
Init ==
    /\ InitResolver
    /\ IdleThreads
    /\ NoBlocks
    /\ platform = "posix"
    /\ NoDisk
    /\ NoObjects
    /\ NoIo

\* calls made one after the other
Next ==
    \/ \E backend \in BackendArgs, prefix \in PrefixArgs,
          kwargs \in KwargsArgs :
            /\ Resolve(backend, prefix, kwargs)
            /\ UNCHANGED <<tvars, lvars, dvars, bvars, ivars>>
    \/ \E a \in InferArgs :
            /\ InferClient(a[1], a[2])
            /\ UNCHANGED <<tvars, lvars, dvars, bvars, ivars>>
    \/ \E a \in RegisterArgs :
            /\ Register(a[1], a[2], a[3], a[4])
            /\ UNCHANGED <<tvars, lvars, dvars, bvars, ivars>>

Spec == Init /\ [][Next]_vars

\* threads calling FileClient(...) at the same time
NextThreads ==
    \/ \E t \in Threads, cfg \in ThreadConfigs : TStart(t, cfg)
    \/ \E t \in Threads : TLookup(t)
    \/ \E t \in Threads : TFetch(t)
    \/ \E t \in Threads : TConstruct(t)
    \/ \E t \in Threads : TStore(t)
    \/ \E t \in Threads : TReturn(t)

SpecThreads == Init /\ [][NextThreads]_vars

InitLocalPath ==
    /\ InitResolver
    /\ IdleThreads
    /\ NoBlocks
    /\ platform \in Platforms
    /\ NoDisk
    /\ NoObjects
    /\ NoIo

\* with statements over get_local_path
NextLocalPath ==
    \/ \E b \in Blocks, via \in Entries : LpEnter(b, via)
    \/ \E b \in Blocks : LpMkTemp(b)
    \/ \E b \in Blocks : LpDownload(b)
    \/ \E b \in Blocks : LpClose(b)
    \/ \E b \in Blocks, how \in {"normal", "error", "return"} : LpLeave(b, how)
    \/ \E b \in Blocks : LpFinally(b)

SpecLocalPath == InitLocalPath /\ [][NextLocalPath]_vars

\* calls on a disk backend
NextDisk ==
    \/ \E obj \in DataArgs, filepath \in PathArgs :
            DiskPutCall(obj, filepath)
    \/ \E filepath \in PathArgs : DiskGetCall(filepath)
    \/ \E via \in Facades, dir_path \in DirArgs, opts \in ListOptArgs :
            ListCall(via, dir_path, opts)
    \/ Consume

SpecDisk == Init /\ [][NextDisk]_vars

\* put, remove, the queries and join_path, on the backend or the FileClient
NextFacade ==
    \/ \E obj \in DataArgs, filepath \in PathArgs :
            DiskPutCall(obj, filepath)
    \/ \E via \in Facades, filepath \in PathArgs : RemoveCall(via, filepath)
    \/ \E via \in Facades, method \in QueryMethods, filepath \in PathArgs :
            QueryCall(via, method, filepath)
    \/ \E via \in Facades, filepath \in PathArgs, filepaths \in PartsArgs :
            JoinPathCall(via, filepath, filepaths)

SpecFacade == Init /\ [][NextFacade]_vars

InitBackendObjects ==
    /\ backends = InitBackends
    /\ prefix_to_backends = InitPrefixes
    /\ instances = Empty
    /\ nextId = 0
    /\ installed \in SUBSET Libraries
    /\ calls = 0
    /\ last = NoCall
    /\ returned = Empty
    /\ IdleThreads
    /\ NoBlocks
    /\ platform = "posix"
    /\ NoDisk
    /\ NoObjects
    /\ NoIo

\* backend objects are built, used and discarded
NextBackends ==
    \/ \E cfg \in BackendConfigs : BResolve(cfg)
    \/ \E cfg \in BackendConfigs : BConstruct(cfg)
    \/ \E id \in DOMAIN objs, opened \in BOOLEAN : BGet(id, opened)
    \/ \E id \in DOMAIN objs, method \in WriteMethods : BWrite(id, method)
    \/ \E id \in DOMAIN objs : BDiscard(id)
    \/ \E lib \in Libraries : Install(lib)

SpecBackends == InitBackendObjects /\ [][NextBackends]_vars

\* objects are dumped
NextIo ==
    \E obj \in ObjArgs, file \in FileArgs, file_format \in FormatArgs,
       args \in ClientArgs : Dump(obj, file, file_format, args)

SpecIo == Init /\ [][NextIo]_vars

(***************************************************************************)
(* Properties of the sequential resolver.                                  *)
(***************************************************************************)
\* the class of the backend held by the cached object with identity id
TypeOf(id) ==
    LET k == CHOOSE x \in DOMAIN instances : instances[x].id = id
    IN  instances[k].type

Resolved == last.op \in {"resolve", "infer"} /\ last.err = Ok

C3_ForcedOverrideEvicts ==
    /\ (last.op = "register" /\ last.over) =>
            /\ last.pkind # "other" => last.err = Ok
            /\ KeysOf(instances, last.old) = {}
            /\ backends[last.name.s] = last.cls
    /\ (last.refetch /\ last.err = Ok) =>
            /\ last.built
            /\ last.id = nextId
            /\ TypeOf(last.id) = last.expect

C3_Witness ==
    /\ last.refetch /\ last.err = Ok /\ last.expect = "UserBackend"
    /\ nextId = 2

\* C4: an unforced registration of a registered name with a backend class
\* raises the KeyError of line 417 and leaves both tables and the cache
\* as they were.
C4_UnforcedRegisterFails ==
    [][(/\ last'.op = "register" /\ ~last'.force /\ last'.old # ""
        /\ IsBackendClass(last'.cls))
       => (/\ last'.err = AlreadyRegistered(last'.name.s)
           /\ UNCHANGED tables)]_vars

C4_Witness ==
    /\ last.op = "register" /\ ~last.force /\ last.old = "HardDiskBackend"
    /\ last.cls = "UserBackend"
    /\ last.err = AlreadyRegistered("disk")
    /\ nextId = 1

\* C5 (as claimed): a registration that raises leaves both tables and the
\* cache as they were.
C5_RegisterAllOrNothing ==
    [][(last'.op = "register" /\ last'.err # Ok) => UNCHANGED tables]_vars

\* C6 (as claimed): a resolve with a registered name returns, whatever the
\* prefix, an object whose backend is of the class registered under the
\* name; the prefix never makes it raise.
C6_NameOverPrefix ==
    (/\ last.op = "resolve" /\ last.name.t = "str"
     /\ last.name.s \in DOMAIN backends)
    => /\ last.err # UnsupportedPrefix(last.prefix)
       /\ last.err = Ok => TypeOf(last.id) = backends[last.name.s]

\* the text of a uri before its first "://"
Scheme(uri) == Split(uri)[1]

\* C7 (as claimed): infer_client with only a uri returns, for a uri without
\* "://", the object of the default resolve, of the class registered as
\* "disk", and for scheme://rest with a registered scheme an object of the
\* class registered for the scheme.
C7_InferFromUri ==
    (last.op = "infer" /\ ~last.given)
    => IF \A i \in 1..Len(last.uri) : last.uri[i] # Sep
       THEN /\ last.err = Ok
            /\ TypeOf(last.id) = backends["disk"]
            /\ last.id = instances[ArgKey(PyNone, PyNone, <<>>)].id
       ELSE Scheme(last.uri) \in DOMAIN prefix_to_backends
            => /\ last.err = Ok
               /\ TypeOf(last.id) = prefix_to_backends[Scheme(last.uri)]

\* C8: a resolve with an unregistered name raises the ValueError of line
\* 336, one with no name and an unregistered prefix that of line 340; both
\* construct nothing and leave the tables and the cache as they were.
C8_UnknownKeyRejected ==
    [][(last'.op \in {"resolve", "infer"} /\ ~last'.given) =>
        /\ (last'.name.t = "str" /\ last'.name.s \notin DOMAIN backends)
           => /\ last'.err = UnsupportedBackend(last'.name)
              /\ UNCHANGED <<tables, nextId>>
        /\ (/\ last'.name.t = "none" /\ last'.prefix.t = "str"
            /\ last'.prefix.s \notin DOMAIN prefix_to_backends)
           => /\ last'.err = UnsupportedPrefix(last'.prefix)
              /\ UNCHANGED <<tables, nextId>>]_vars

C8_Witness ==
    /\ last.op = "resolve" /\ last.name = PyNone
    /\ last.prefix = PyStr("s3") /\ last.err = UnsupportedPrefix(PyStr("s3"))
    /\ nextId = 1

\* the keyword/value pairs of a call, whatever their order
Pairs(kwargs) == {kwargs[i] : i \in 1..Len(kwargs)}

\* C9 (as claimed): two resolves with the same name, prefix and keyword
\* pairs, in whatever order the keywords come, return the same object.
C9_KeywordOrderIrrelevant ==
    \A c1, c2 \in DOMAIN returned :
        (/\ c1.backend = c2.backend /\ c1.prefix = c2.prefix
         /\ Pairs(c1.kwargs) = Pairs(c2.kwargs))
        => returned[c1] = returned[c2]

(***************************************************************************)
(* Properties of concurrent calls.                                         *)
(***************************************************************************)
\* C2: two threads that call FileClient with the same arg_key while the key
\* is not cached receive the same object, and one backend is constructed:
\* whatever the interleaving, two calls that returned for the same arg_key
\* returned the same object (objects are numbered by construction, so two
\* different objects are two constructions).
C2_OneClientPerKey ==
    \A t1, t2 \in Threads :
        (pc[t1] = "done" /\ pc[t2] = "done" /\ TKey(t1) = TKey(t2))
        => tret[t1] = tret[t2]

(***************************************************************************)
(* Properties of get_local_path.                                           *)
(***************************************************************************)
\* C10: however a with-block over HTTPBackend.get_local_path ends (its body
\* completes, raises or returns, or the download fails before the body
\* runs), the temporary file it created is no longer on disk once the block
\* has been left; and while the body runs the yielded path is an existing
\* file.
C10_TempFileGone ==
    \A b \in Blocks :
        /\ (lp[b].at = "left" /\ lp[b].f # 0) => lp[b].f \notin files
        /\ lp[b].at = "block" => lp[b].f \in files

(***************************************************************************)
(* Properties of the disk backend.                                         *)
(***************************************************************************)
\* C11: on the disk backend a get that follows a successful put(data, p)
\* on the same path returns exactly data; after a successful put every
\* directory above p exists; and a put on a path whose parent directories
\* already exist (and that is not itself a directory) succeeds.
C11_PutThenGet ==
    /\ (dout.op = "get" /\ dout.afterput)
       => (dout.err = "" /\ dout.value = dout.obj)
    /\ (dout.op = "put" /\ dout.err = "")
       => (Ancestors(dout.path) \subseteq dirs
           /\ fdata[dout.path] = dout.obj)
    /\ (dout.op = "put" /\ dout.parents) => dout.err = ""

\* a file written below two directories that did not exist is read back,
\* after an earlier put had created the first of them
C11_Witness ==
    /\ dout.op = "get" /\ dout.afterput /\ dout.value = "y"
    /\ dout.path = <<CompD, CompE, CompG>>
    /\ <<CompD, CompF>> \in DOMAIN fdata

(***************************************************************************)
(* Properties of backend objects.                                          *)
(***************************************************************************)
\* C12: a MemcachedBackend or LmdbBackend object opens no connection when
\* it is constructed or resolved: it holds none before its first get, and
\* never opens more than one.
C12_ConnectOnFirstGet ==
    \A id \in DOMAIN objs :
        objs[id].cls \in {"MemcachedBackend", "LmdbBackend"}
        => /\ ~objs[id].used => \A k \in DOMAIN conns : conns[k].owner # id
           /\ Cardinality({k \in DOMAIN conns : conns[k].owner = id}) <= 1

\* C13: when the library of MemcachedBackend or LmdbBackend cannot be
\* imported, FileClient(...) for that backend raises ImportError from the
\* constructor and caches nothing, so that the same call made again
\* constructs again; no get raises the ImportError later, and every
\* cached object was built completely.
C13_MissingLibraryFailsAtConstruction ==
    /\ (/\ bout.op = "resolve" /\ bout.sig /\ ~bout.lib
        /\ bout.cls \in {"MemcachedBackend", "LmdbBackend"})
       => /\ bout.err.type = "ImportError"
          /\ bout.err = DependencyMissing(
                            IF bout.cls = "LmdbBackend" THEN "lmdb"
                            ELSE "memcached", bout.cls)
          /\ bout.key \notin DOMAIN instances
    /\ (bout.op = "resolve" /\ bout.retry)
       => /\ ~bout.cached
          /\ bout.err = Ok => (bout.id = nextId /\ bout.id \in DOMAIN objs)
    /\ bout.op = "get" => bout.err.type # "ImportError"
    /\ \A k \in DOMAIN instances :
          /\ instances[k].id \in DOMAIN objs
          /\ objs[instances[k].id].cls = instances[k].type

\* the same resolve fails a second time for want of lmdb, nothing built
C13_Witness ==
    /\ bout.op = "resolve" /\ bout.retry /\ bout.cls = "LmdbBackend"
    /\ bout.err = DependencyMissing("lmdb", "LmdbBackend")
    /\ nextId = 0 /\ instances = Empty

\* C14: discarding an LmdbBackend object, used or not, raises nothing and
\* leaves none of its connections open.
C14_TeardownCloses ==
    (bout.op = "discard" /\ bout.cls = "LmdbBackend")
    => (bout.err = Ok /\ OpenConns(bout.id) = {})

\* C15: put, put_text and remove through a FileClient whose backend is an
\* HTTPBackend, MemcachedBackend or LmdbBackend raise NotImplementedError
\* and write nothing.
C15_WriteUnsupported ==
    [][(/\ bout'.op \in WriteMethods
        /\ bout'.cls \in {"HTTPBackend", "MemcachedBackend", "LmdbBackend"})
       => (/\ bout'.err.type = "NotImplementedError"
           /\ UNCHANGED <<dirs, fdata>>)]_vars

\* C16: list_dir_or_file raises TypeError when suffix is given while
\* list_dir is true, and when suffix is neither a str nor a tuple; the call
\* itself raises it, on the backend and on the FileClient alike.
C16_ListRejectsBadSuffix ==
    (/\ dout.op = "list"
     /\ \/ dout.opts.list_dir /\ dout.opts.suffix.kind # "none"
        \/ dout.opts.suffix.kind \notin {"none", "str", "tuple"})
    => dout.err = "TypeError"

\* the files below dir_path that no hidden file or directory leads to
Visible(dir_path) ==
    {q \in DOMAIN fdata :
        /\ Len(q) > Len(dir_path)
        /\ SubSeq(q, 1, Len(dir_path)) = dir_path
        /\ \A i \in (Len(dir_path) + 1)..Len(q) : q[i][1] # "."}

\* C17: with recursive and list_file set and list_dir unset (no suffix),
\* list_dir_or_file yields the relative path of every non-hidden file at
\* every depth below dir_path, each exactly once.
C17_RecursiveListsEveryFile ==
    (/\ dout.op = "consume" /\ dout.err = ""
     /\ dout.opts = ListOpts(FALSE, TRUE, NoSuffix, TRUE))
    => \A q \in Visible(dout.path) :
          Cardinality({i \in 1..Len(dout.entries) :
                          dout.entries[i] = RelPath(q, dout.path)}) = 1

InferNow(p) ==
    NewClient(PyNone, PyStr(p), <<>>, backends, prefix_to_backends,
              instances, nextId, installed)

\* C19: a forced registration with prefixes maps every prefix to the new
\* class; for a prefix that was mapped to a class, no cached object of that
\* class is left, and infer_client on a URI of the prefix then constructs
\* a new client of the new class; when neither the name nor any prefix was
\* registered nothing is evicted; an unforced registration with a
\* registered prefix raises KeyError (already registered).
C19_PrefixOverride ==
    /\ (/\ last.op = "register" /\ last.err = Ok /\ last.force
        /\ last.pkind \in {"str", "list"})
       => /\ \A i \in 1..Len(last.items) :
                /\ prefix_to_backends[last.items[i]] = last.cls
                /\ InferNow(last.items[i]).err = Ok
                /\ InferNow(last.items[i]).id = nextId + 1
                /\ InferNow(last.items[i]).I[
                       ArgKey(PyNone, PyStr(last.items[i]), <<>>)].type
                   = last.cls
          /\ \A q \in DOMAIN last.pold :
                KeysOf(instances, last.pold[q]) = {}
          /\ (last.old = "" /\ DOMAIN last.pold = {}) => last.kept
    /\ (/\ last.op = "register" /\ ~last.force /\ IsBackendClass(last.cls)
        /\ last.name.t = "str" /\ DOMAIN last.pold # {})
       => last.err.type = "KeyError"

\* C20: parse_uri_prefix, as called by infer_client with only a uri, never
\* raises; for a uri that holds "://", also more than once, the prefix it
\* hands to the resolve is the text before the first "://", and for a uri
\* without "://" it is None.
C20_ParseUriPrefix ==
    (last.op = "infer" /\ ~last.given)
    => /\ ParseUriPrefix(last.uri).err = Ok
       /\ last.err # TooManyValues
       /\ last.prefix = IF \E i \in 1..Len(last.uri) : last.uri[i] = Sep
                        THEN PyStr(Scheme(last.uri))
                        ELSE PyNone

(***************************************************************************)
(* The listing against its reference.                                      *)
(***************************************************************************)
\* the entries below dir_path that no hidden name leads to: the direct
\* children, or those at every depth when recursive is set
Below(dir_path, recursive) ==
    {q \in dirs \cup DOMAIN fdata :
        /\ Len(q) > Len(dir_path)
        /\ SubSeq(q, 1, Len(dir_path)) = dir_path
        /\ recursive \/ Len(q) = Len(dir_path) + 1
        /\ \A i \in (Len(dir_path) + 1)..Len(q) : q[i][1] # "."}

\* the reference listing: the files that match the suffix when list_file is
\* set, and the directories when list_dir is set, relative to dir_path
Reference(dir_path, opts) ==
    {RelPath(q, dir_path) :
        q \in {e \in Below(dir_path, opts.recursive) :
                  \/ /\ opts.list_file
                     /\ e \in DOMAIN fdata
                     /\ \/ opts.suffix.kind = "none"
                        \/ EndsWith(RelPath(e, dir_path), opts.suffix)
                  \/ /\ opts.list_dir
                     /\ e \in dirs}}

\* C21: for every tree and every valid combination of list_dir, list_file,
\* suffix and recursive, the paths list_dir_or_file yields are exactly the
\* reference listing; with list_dir set the subdirectories are among them.
C21_ListingEqualsReference ==
    (dout.op = "consume" /\ dout.err = "")
    => {dout.entries[i] : i \in 1..Len(dout.entries)}
           = Reference(dout.path, dout.opts)

(***************************************************************************)
(* Coherence of the cache with the tables, and separation of its keys.     *)
(***************************************************************************)
\* C22: after any sequence of resolves, infer_client calls and
\* registrations, the object a resolve returns holds a backend that is an
\* instance of the class now registered for what selects it: the name when
\* one is given, otherwise the prefix.
C22_CacheCoherent ==
    Resolved
    => IsSubclass(TypeOf(last.id),
                  ChosenClass(last.name, last.prefix, backends,
                              prefix_to_backends))

\* C23: two resolves whose configurations differ in the name (after the
\* default of line 334), in the prefix or in a keyword pair never return
\* the same object, and the object returned for a name holds a backend of
\* the class registered under that name, also when a name renders like an
\* absent one (the name 'None').
C23_DistinctConfigsDistinctClients ==
    /\ \A c1, c2 \in DOMAIN returned :
          (\/ EffBackend(c1.backend, c1.prefix)
                 # EffBackend(c2.backend, c2.prefix)
           \/ c1.prefix # c2.prefix
           \/ Pairs(c1.kwargs) # Pairs(c2.kwargs))
          => returned[c1] # returned[c2]
    /\ (Resolved /\ last.name.t = "str")
       => TypeOf(last.id) = backends[last.name.s]

(***************************************************************************)
(* The FileClient against the backend it holds.                            *)
(***************************************************************************)
\* C24: exists, isdir and isfile asked of a FileClient over a disk backend
\* return the boolean the backend returns for the path; asked right after
\* a put of the path that returned, exists is True, and right after a
\* remove of it that returned, exists is False.
C24_QueriesReturnBackendAnswer ==
    (dout.op = "query" /\ dout.via = "FileClient")
    => /\ dout.ret = dout.expect
       /\ (dout.method = "exists" /\ dout.after = "put")
          => dout.ret = PyBool(TRUE)
       /\ (dout.method = "exists" /\ dout.after = "remove")
          => dout.ret = PyBool(FALSE)

\* C25: join_path called on a FileClient returns what the join_path of its
\* backend returns for the same arguments, and no frame of
\* FileClient.join_path is entered beyond that of the call itself.
C25_JoinPathDelegatesOnce ==
    (dout.op = "join" /\ dout.via = "FileClient")
    => /\ dout.err = ""
       /\ dout.joined = DiskJoinPath(dout.path, dout.parts).joined
       /\ dout.frames <= 1

====
